---------------------------- MODULE Spec2Model ----------------------------
(***************************************************************************)
(* Nagar Rakshak chat widget: the conversation session of ChatInterface    *)
(* (message log, input buffer, loading flag, error, last bot message), the *)
(* speech playback of ChatInterface (speakMessage / stopSpeaking against   *)
(* the platform speech engine) and the report dialog EmailModal.           *)
(*                                                                         *)
(* Texts are sequences of characters so that trim() is computed, not       *)
(* assumed.  Network calls are requests in flight that the backend         *)
(* resolves later with one of the outcomes the handler distinguishes.      *)
(***************************************************************************)
EXTENDS Integers, Sequences, FiniteSets, TLC

VARIABLES
    currentChat,     \* ChatInterface prop currentChat: a chat id or Null
    messages,        \* useState<Message[]>
    input,           \* useState('') input buffer
    isLoading,       \* useState(false)
    error,           \* useState<string | null>
    askInflight,     \* /ask_bot requests sent and not yet resolved, in order of issue
    lastBotMessage,  \* parent state written through setLastBotMessage, read by EmailModal
    isOpen,          \* EmailModal prop isOpen
    email,           \* EmailModal useState('')
    sending,         \* EmailModal useState(false)
    emailInflight,   \* /send_email requests sent and not yet resolved
    lastAlert,       \* the last alert() EmailModal raised
    queue,           \* speech engine: utterances queued or being spoken (ids)
    started,         \* speech engine: the head of the queue has begun being spoken
    paused,          \* speech engine: paused state
    events,          \* speech engine: per utterance, callbacks fired and not yet delivered
    resumeTimers,    \* pending setTimeout(() => speechSynthesis.resume(), 10)
    nextUtt,         \* number of SpeechSynthesisUtterance objects constructed so far
    isSpeaking       \* useState(false)

chatVars   == <<currentChat, messages, input, isLoading, error, askInflight, lastBotMessage>>
emailVars  == <<isOpen, email, sending, emailInflight, lastAlert>>
speechVars == <<queue, started, paused, events, resumeTimers, nextUtt, isSpeaking>>
vars       == <<chatVars, emailVars, speechVars>>

----------------------------------------------------------------------------
(* Bounds of the model *)

\* longest text typed into the chat input
MaxInput == 1
\* longest message log a submit may still extend
MaxLog == 4
\* SpeechSynthesisUtterance objects constructed in one run
MaxUtter == 3
\* word boundaries whose pause/resume is still outstanding at one time
MaxBoundary == 1

----------------------------------------------------------------------------
(* Values *)

Null == "null"
Chats == {"chat1", "chat2"}

\* characters of typed text: one whitespace, one non-whitespace
Chars == {" ", "a"}
Whitespace == {" "}

RECURSIVE SeqsUpTo(_, _)
SeqsUpTo(S, n) ==
    IF n = 0 THEN {<<>>}
    ELSE LET shorter == SeqsUpTo(S, n - 1)
         IN  shorter \cup {Append(s, c) : s \in {t \in shorter : Len(t) = n - 1}, c \in S}

Inputs == SeqsUpTo(Chars, MaxInput)

\* three typed texts, one of each kind the handler distinguishes: empty,
\* blank, non-blank
SampleInputs == {<<>>, <<" ">>, <<"a">>}

\* reply texts the backend may put in data.response
Replies == {<<"x">>, <<"y">>}
\* data.response when the 2xx body has no response field
Undefined == <<"undefined">>
\* the last bot message before any setLastBotMessage call
Unset == <<>>

FetchErrorText == "An error occurred while fetching the response. Please try again."

\* String.prototype.trim: strip leading and trailing whitespace
RECURSIVE TrimStart(_)
TrimStart(s) ==
    IF s # <<>> /\ Head(s) \in Whitespace THEN TrimStart(Tail(s)) ELSE s

RECURSIVE TrimEnd(_)
TrimEnd(s) ==
    IF s # <<>> /\ s[Len(s)] \in Whitespace THEN TrimEnd(SubSeq(s, 1, Len(s) - 1)) ELSE s

Trim(s) == TrimEnd(TrimStart(s))

\* JSON.stringify of an object field: a field whose value is undefined is left out
Absent == <<"absent">>
JsonField(v) == IF v = Undefined THEN Absent ELSE v

UserMessage(text) == [role |-> "user", content |-> text]
AssistantMessage(text) == [role |-> "assistant", content |-> text]

\* messages.map(msg => ({ messages: [{ sender: msg.role, text: msg.content }] }))
ConversationsNew(log) ==
    [i \in 1..Len(log) |->
        [messages |-> <<[sender |-> log[i].role, text |-> JsonField(log[i].content)]>>]]

AskRequest(log, question) ==
    [conversationsNew |-> ConversationsNew(log), question |-> question]

RemoveAt(s, i) == SubSeq(s, 1, i - 1) \o SubSeq(s, i + 1, Len(s))

----------------------------------------------------------------------------
(* Conversation session (ChatInterface) *)

InitChat ==
    /\ currentChat = Null
    /\ messages = <<>>
    /\ input = <<>>
    /\ isLoading = FALSE
    /\ error = Null
    /\ askInflight = <<>>
    /\ lastBotMessage = Unset

\* the form (input and submit button) is rendered only for a selected chat
FormRendered == currentChat # Null

\* the submit control without its disabled attribute
SubmitAlwaysEnabled == currentChat # Null

\* <button type="submit" disabled={isLoading}>: a disabled default button
\* blocks the click and the implicit (Enter key) submission alike
SubmitEnabled == FormRendered /\ ~isLoading

\* the emptiness test without the trim: if (!input) return;
IsBlankNoTrim(text) == text = <<>>

\* if (!input.trim()) return;
IsBlank(text) == Trim(text) = <<>>

\* onChange={(e) => setInput(e.target.value)}
SetInput(v) ==
    /\ FormRendered
    /\ v # input
    /\ input' = v
    /\ UNCHANGED <<currentChat, messages, isLoading, error, askInflight, lastBotMessage>>
    /\ UNCHANGED <<emailVars, speechVars>>

\* handleSubmit up to the await of fetch
HandleSubmit ==
    /\ SubmitEnabled
    /\ IF IsBlank(input)
       THEN UNCHANGED vars
       ELSE /\ Len(messages) + 2 <= MaxLog
            /\ messages' = Append(messages, UserMessage(input))
            /\ input' = <<>>
            /\ isLoading' = TRUE
            /\ error' = Null
            /\ askInflight' = Append(askInflight, AskRequest(messages, input))
            /\ UNCHANGED <<currentChat, lastBotMessage>>
            /\ UNCHANGED <<emailVars, speechVars>>

\* the assistant branch after await response.json()
AppendAssistant(reply) ==
    /\ messages' = Append(messages, AssistantMessage(reply))
    /\ lastBotMessage' = reply
    /\ UNCHANGED error

\* a catch branch that also takes the optimistic user message back
RecordErrorRollsBack ==
    /\ error' = FetchErrorText
    /\ messages' = SubSeq(messages, 1, Len(messages) - 1)
    /\ UNCHANGED lastBotMessage

\* the catch branch
RecordError ==
    /\ error' = FetchErrorText
    /\ UNCHANGED <<messages, lastBotMessage>>

\* a handler whose setIsLoading(false) is not reached
FinallySkipped == UNCHANGED isLoading

\* finally { setIsLoading(false); }
Finally == isLoading' = FALSE

\* handleSubmit from the resolution of fetch to the end of finally.  Outcomes:
\*   ok         2xx, the body is JSON with a response field
\*   missing    2xx, the body is a JSON object without a response field
\*   http       !response.ok
\*   transport  fetch rejects
\*   badjson    2xx, response.json() rejects
AskResolve(i, outcome, reply) ==
    /\ i \in 1..Len(askInflight)
    /\ askInflight' = RemoveAt(askInflight, i)
    /\ \/ outcome = "ok" /\ AppendAssistant(reply)
       \/ outcome = "missing" /\ reply = Undefined /\ AppendAssistant(Undefined)
       \/ outcome = "http" /\ reply = Undefined /\ RecordError
       \/ outcome = "transport" /\ reply = Undefined /\ RecordError
       \/ outcome = "badjson" /\ reply = Undefined /\ RecordError
    /\ Finally
    /\ UNCHANGED <<currentChat, input>>
    /\ UNCHANGED <<emailVars, speechVars>>

AskOutcomes == {"ok", "missing", "http", "transport", "badjson"}

AskResponse ==
    \E i \in 1..Len(askInflight), outcome \in AskOutcomes, reply \in Replies \cup {Undefined} :
        /\ outcome = "ok" => reply \in Replies
        /\ AskResolve(i, outcome, reply)

\* useEffect(() => { setMessages([]); }, [currentChat]) after the parent changes the prop
Reset(c) ==
    /\ c # currentChat
    /\ currentChat' = c
    /\ messages' = <<>>
    /\ UNCHANGED <<input, isLoading, error, askInflight, lastBotMessage>>
    /\ UNCHANGED <<emailVars, speechVars>>

\* the steps of the session other than typing
ChatSteps ==
    \/ HandleSubmit
    \/ AskResponse
    \/ \E c \in Chats \cup {Null} : Reset(c)

NextChat ==
    \/ \E v \in Inputs : SetInput(v)
    \/ ChatSteps

----------------------------------------------------------------------------
(* Report dialog (EmailModal) *)

InitEmail ==
    /\ isOpen = FALSE
    /\ email = <<>>
    /\ sending = FALSE
    /\ emailInflight = <<>>
    /\ lastAlert = Null

\* addresses typed into the dialog: empty, no "@", plausible
EmailInputs == {<<>>, <<"u">>, <<"u", "@", "d">>}

\* <input type="email" required>: the browser blocks submission of an empty
\* value and of a value without local part, "@" and domain
PassesInputValidation(addr) ==
    \E i \in 2..(Len(addr) - 1) :
        /\ addr[i] = "@"
        /\ \A j \in 1..Len(addr) : j # i => addr[j] # "@"

EmailSubject == "Police Report Summary"
AlertSuccess == "Email sent successfully!"
AlertFailure == "Failed to send email. Please try again."

EmailRequest(addr, text) ==
    [to |-> addr, subject |-> EmailSubject, body |-> JsonField(text)]

\* the parent shows the dialog (isOpen becomes true)
OpenModal ==
    /\ ~isOpen
    /\ isOpen' = TRUE
    /\ UNCHANGED <<email, sending, emailInflight, lastAlert>>
    /\ UNCHANGED <<chatVars, speechVars>>

\* onClose() as the parent implements it: isOpen becomes false
OnClose == isOpen' = FALSE

\* <button onClick={onClose}> (the X of the dialog)
CloseModal ==
    /\ isOpen
    /\ OnClose
    /\ UNCHANGED <<email, sending, emailInflight, lastAlert>>
    /\ UNCHANGED <<chatVars, speechVars>>

\* onChange={(e) => setEmail(e.target.value)}
SetEmail(v) ==
    /\ isOpen
    /\ v # email
    /\ email' = v
    /\ UNCHANGED <<isOpen, sending, emailInflight, lastAlert>>
    /\ UNCHANGED <<chatVars, speechVars>>

\* <button type="submit" disabled={sending}> of the rendered dialog
DispatchEnabled == isOpen /\ ~sending /\ PassesInputValidation(email)

\* EmailModal.handleSubmit up to the await of fetch
Dispatch ==
    /\ DispatchEnabled
    /\ sending' = TRUE
    /\ emailInflight' = Append(emailInflight, EmailRequest(email, lastBotMessage))
    /\ UNCHANGED <<isOpen, email, lastAlert>>
    /\ UNCHANGED <<chatVars, speechVars>>

\* if (emailData.success) { alert(...); onClose(); }
EmailSucceeded ==
    /\ lastAlert' = AlertSuccess
    /\ OnClose

\* a catch branch that closes the dialog as the success branch does
EmailFailedCloses ==
    /\ lastAlert' = AlertFailure
    /\ OnClose

\* the catch branch
EmailFailed ==
    /\ lastAlert' = AlertFailure
    /\ UNCHANGED isOpen

EmailOutcomes == {"success", "bodyfail", "http", "transport", "badjson"}

\* EmailModal.handleSubmit from the resolution of fetch to the end of finally
EmailResolve(i, outcome) ==
    /\ i \in 1..Len(emailInflight)
    /\ emailInflight' = RemoveAt(emailInflight, i)
    /\ \/ outcome = "success" /\ EmailSucceeded
       \/ outcome = "bodyfail" /\ EmailFailed
       \/ outcome = "http" /\ EmailFailed
       \/ outcome = "transport" /\ EmailFailed
       \/ outcome = "badjson" /\ EmailFailed
    /\ sending' = FALSE
    /\ UNCHANGED email
    /\ UNCHANGED <<chatVars, speechVars>>

EmailResponse ==
    \E i \in 1..Len(emailInflight), outcome \in EmailOutcomes : EmailResolve(i, outcome)

NextEmail ==
    \/ OpenModal
    \/ CloseModal
    \/ \E v \in EmailInputs : SetEmail(v)
    \/ Dispatch
    \/ EmailResponse

----------------------------------------------------------------------------

(* Speech playback (ChatInterface.speakMessage / stopSpeaking) against the  *)
(* platform speech engine.  The engine keeps a queue of utterances, speaks  *)
(* the head, and fires each utterance's callbacks as separate tasks: the    *)
(* callbacks of one utterance arrive in order, those of two utterances in   *)
(* any order.                                                               *)

InitSpeech ==
    /\ queue = <<>>
    /\ started = FALSE
    /\ paused = FALSE
    /\ events = <<>>
    /\ resumeTimers = 0
    /\ nextUtt = 0
    /\ isSpeaking = FALSE

\* the contents message.content of the rendered assistant messages, each
\* with its own speak button
SpeakableTexts ==
    IF currentChat = Null THEN {}
    ELSE {messages[i].content : i \in {j \in 1..Len(messages) : messages[j].role = "assistant"}}

\* the event the engine fires on an utterance that cancel() interrupts while
\* it is being spoken: "end" on some engines, "error" (interrupted) on others
InterruptEvents == {"end", "error"}

Fire(evs, id, e) == [evs EXCEPT ![id] = Append(@, e)]

\* speechSynthesis.cancel(): the queue it leaves
QueueAfterCancel == <<>>

\* speechSynthesis.cancel(): the callbacks outstanding after it; an utterance
\* removed before it began being spoken gets none
EventsAfterCancel(ie) ==
    IF started THEN Fire(events, Head(queue).id, ie) ELSE events

\* speakMessage(message): cancel(), new SpeechSynthesisUtterance(message),
\* registration of the callbacks, speechSynthesis.speak(utterance)
SpeakMessage(text, ie) ==
    /\ nextUtt < MaxUtter
    /\ nextUtt' = nextUtt + 1
    /\ queue' = Append(QueueAfterCancel, [id |-> nextUtt + 1, text |-> text])
    /\ started' = FALSE
    /\ events' = Append(EventsAfterCancel(ie), <<>>)
    /\ UNCHANGED <<paused, resumeTimers, isSpeaking>>
    /\ UNCHANGED <<chatVars, emailVars>>

\* stopSpeaking(): cancel() and setIsSpeaking(false).  No control of the
\* rendered widget calls it.
StopSpeaking(ie) ==
    /\ queue' = QueueAfterCancel
    /\ started' = FALSE
    /\ events' = EventsAfterCancel(ie)
    /\ isSpeaking' = FALSE
    /\ UNCHANGED <<paused, resumeTimers, nextUtt>>
    /\ UNCHANGED <<chatVars, emailVars>>

\* the engine begins speaking the head of the queue and fires its start event
EngineBegin ==
    /\ queue # <<>>
    /\ ~started
    /\ ~paused
    /\ started' = TRUE
    /\ events' = Fire(events, Head(queue).id, "start")
    /\ UNCHANGED <<queue, paused, resumeTimers, nextUtt, isSpeaking>>
    /\ UNCHANGED <<chatVars, emailVars>>

\* boundary callbacks fired and not yet delivered
PendingBoundaries ==
    Cardinality(UNION {{<<id, k>> : k \in {j \in 1..Len(events[id]) : events[id][j] = "boundary"}} :
                          id \in 1..nextUtt})

\* the engine reaches a word boundary of the utterance being spoken
EngineBoundary ==
    /\ started
    /\ ~paused
    /\ PendingBoundaries + resumeTimers < MaxBoundary
    /\ events' = Fire(events, Head(queue).id, "boundary")
    /\ UNCHANGED <<queue, started, paused, resumeTimers, nextUtt, isSpeaking>>
    /\ UNCHANGED <<chatVars, emailVars>>

\* the utterance being spoken completes naturally
EngineEnd ==
    /\ started
    /\ ~paused
    /\ queue' = Tail(queue)
    /\ started' = FALSE
    /\ events' = Fire(events, Head(queue).id, "end")
    /\ UNCHANGED <<paused, resumeTimers, nextUtt, isSpeaking>>
    /\ UNCHANGED <<chatVars, emailVars>>

\* utterance.onstart = () => setIsSpeaking(true)
OnStart == isSpeaking' = TRUE /\ UNCHANGED <<paused, resumeTimers>>

\* utterance.onend = () => setIsSpeaking(false)
OnEnd == isSpeaking' = FALSE /\ UNCHANGED <<paused, resumeTimers>>

\* utterance.onboundary: speechSynthesis.pause(); setTimeout(resume, 10)
OnBoundary ==
    /\ paused' = TRUE
    /\ resumeTimers' = resumeTimers + 1
    /\ UNCHANGED isSpeaking

\* no onerror callback is registered
OnError == UNCHANGED <<isSpeaking, paused, resumeTimers>>

\* the event loop delivers the oldest undelivered callback of utterance id
Deliver(id) ==
    /\ id \in 1..nextUtt
    /\ events[id] # <<>>
    /\ events' = [events EXCEPT ![id] = Tail(@)]
    /\ \/ Head(events[id]) = "start" /\ OnStart
       \/ Head(events[id]) = "end" /\ OnEnd
       \/ Head(events[id]) = "boundary" /\ OnBoundary
       \/ Head(events[id]) = "error" /\ OnError
    /\ UNCHANGED <<queue, started, nextUtt>>
    /\ UNCHANGED <<chatVars, emailVars>>

\* the timer of onboundary fires: speechSynthesis.resume()
ResumeTimer ==
    /\ resumeTimers > 0
    /\ resumeTimers' = resumeTimers - 1
    /\ paused' = FALSE
    /\ UNCHANGED <<queue, started, events, nextUtt, isSpeaking>>
    /\ UNCHANGED <<chatVars, emailVars>>

NextSpeech ==
    \/ \E text \in SpeakableTexts, ie \in InterruptEvents : SpeakMessage(text, ie)
    \/ EngineBegin
    \/ EngineBoundary
    \/ EngineEnd
    \/ \E id \in 1..nextUtt : Deliver(id)
    \/ ResumeTimer

----------------------------------------------------------------------------
(* Specifications *)

Init == InitChat /\ InitEmail /\ InitSpeech

\* the widget after one completed exchange in chat1: the first state in
\* which a speak button exists
InitAfterExchange ==
    /\ currentChat = "chat1"
    /\ \E r \in Replies :
        /\ messages = <<UserMessage(<<"a">>), AssistantMessage(r)>>
        /\ lastBotMessage = r
    /\ input = <<>>
    /\ isLoading = FALSE
    /\ error = Null
    /\ askInflight = <<>>
    /\ InitEmail
    /\ InitSpeech

Next == NextChat \/ NextEmail

\* the session and the dialog together, typing drawn from SampleInputs: what
\* is typed does not bear on whether a request resolves
NextSampled ==
    \/ \E v \in SampleInputs : SetInput(v)
    \/ ChatSteps
    \/ NextEmail

\* the conversation session alone
SpecChat == Init /\ [][NextChat]_vars

\* the conversation session and the report dialog
Spec == Init /\ [][Next]_vars

\* every request in flight is eventually resolved by the backend or the transport
FairSpec == Init /\ [][NextSampled]_vars /\ WF_vars(AskResponse) /\ WF_vars(EmailResponse)

\* the report dialog alone, over a fresh widget or one that has completed an
\* exchange
SpecEmail == (Init \/ InitAfterExchange) /\ [][NextEmail]_vars

\* the speech playback as the rendered widget drives it
SpecSpeech == InitAfterExchange /\ [][NextSpeech]_vars

\* the speech playback with stopSpeaking() called as well
NextSpeechWithStop == NextSpeech \/ \E ie \in InterruptEvents : StopSpeaking(ie)

SpecSpeechWithStop == InitAfterExchange /\ [][NextSpeechWithStop]_vars

----------------------------------------------------------------------------
(* Properties *)

AssistantIndexes == {j \in 1..Len(messages) : messages[j].role = "assistant"}

LastAssistantIndex == CHOOSE j \in AssistantIndexes : \A k \in AssistantIndexes : k <= j

\* a step that issues an /ask_bot request
SubmitStep == Len(askInflight') > Len(askInflight)

\* a step that resolves an /ask_bot request
ResponseStep == Len(askInflight') < Len(askInflight)

\* a step that changes the active chat identifier
ResetStep == currentChat' # currentChat

\* the log is still the one the request req was submitted from: the history
\* it carries followed by its question
LogAsSubmitted(req) ==
    /\ Len(messages) = Len(req.conversationsNew) + 1
    /\ ConversationsNew(SubSeq(messages, 1, Len(messages) - 1)) = req.conversationsNew
    /\ messages[Len(messages)] = UserMessage(req.question)

AllWhitespace(text) == \A k \in 1..Len(text) : text[k] \in Whitespace

\* C1: in every reachable state lastBotMessage is the content of the most
\* recent assistant message of the current log, and is unset when the log
\* holds no assistant message.
C1_LastBotMatchesLog ==
    IF AssistantIndexes = {}
    THEN lastBotMessage = Unset
    ELSE lastBotMessage = messages[LastAssistantIndex].content

\* C2: every change of the active chat identifier leaves the log empty and
\* clears lastBotMessage.
C2_ResetClearsLogAndLastBot ==
    [][ResetStep => (messages' = <<>> /\ lastBotMessage' = Unset)]_vars

\* C3: a reply that arrives when the log is no longer the one its request was
\* submitted from (the session was reset while the request was in flight)
\* appends nothing to the log and leaves lastBotMessage alone.
C3_LateReplyDiscarded ==
    [][(ResponseStep /\ ~LogAsSubmitted(askInflight[1]))
          => (messages' = messages /\ lastBotMessage' = lastBotMessage)]_vars

C5_MissingFieldIsFailure ==
    [][\A i \in 1..Len(askInflight) :
          AskResolve(i, "missing", Undefined) =>
             /\ error' = FetchErrorText
             /\ ~isLoading'
             /\ messages' = messages
             /\ lastBotMessage' = lastBotMessage]_vars

\* C6: a submit while the input buffer is empty or all whitespace changes
\* nothing, and no step taken in such a state issues a request.
C6_BlankSubmitIsNoOp ==
    [][AllWhitespace(input) =>
          /\ HandleSubmit => UNCHANGED chatVars
          /\ ~SubmitStep]_vars

\* the submit control is live on a whitespace-only buffer over a non-empty log
C6_Witness ==
    /\ SubmitEnabled
    /\ input # <<>>
    /\ AllWhitespace(input)
    /\ messages # <<>>

\* C7: at most one utterance is active; the flag is true while the active
\* utterance is playing (its start callback delivered) and false once
\* nothing is active and every callback has been delivered.
Playing == started /\ \A k \in 1..Len(events[Head(queue).id]) : events[Head(queue).id][k] # "start"

Quiet == queue = <<>> /\ \A id \in 1..nextUtt : events[id] = <<>>

C7_SpeakingFlagTracksPlayback ==
    /\ Len(queue) <= 1
    /\ Playing => isSpeaking
    /\ Quiet => ~isSpeaking

\* the part of C7 that the cancel() at the head of speakMessage secures
C7_AtMostOneUtterance == Len(queue) <= 1

\* C8: the dialog goes Idle -> Sending -> Closed (success) or Idle (failure):
\* sending is set exactly while one email request is in flight, a dispatch
\* issues one request from a non-sending state, a reply closes the dialog
\* only with the success alert, and every failure leaves the dialog as it
\* was, raises the failure alert, clears sending and issues no request.
C8_DispatchStateMachine ==
    /\ [](Len(emailInflight) <= 1 /\ (sending <=> emailInflight # <<>>))
    /\ [][/\ Len(emailInflight') > Len(emailInflight) =>
               /\ ~sending /\ sending' /\ isOpen /\ isOpen'
               /\ emailInflight' = <<EmailRequest(email, lastBotMessage)>>
          /\ Len(emailInflight') < Len(emailInflight) =>
               /\ ~sending'
               /\ emailInflight' = <<>>
               /\ (isOpen /\ ~isOpen') => lastAlert' = AlertSuccess
          /\ \A i \in 1..Len(emailInflight) :
               /\ EmailResolve(i, "success") => (~isOpen' /\ lastAlert' = AlertSuccess)
               /\ \A o \in EmailOutcomes \ {"success"} :
                    EmailResolve(i, o) => (isOpen' = isOpen /\ lastAlert' = AlertFailure)]_vars

\* a dispatch failed: the dialog is still open, idle, with the failure alert
C8_Witness ==
    /\ isOpen
    /\ ~sending
    /\ emailInflight = <<>>
    /\ lastAlert = AlertFailure

\* C9: with every request eventually resolved, a pending submit and a
\* pending dispatch each end with their flag cleared.
C9_ReturnsToIdle == (isLoading ~> ~isLoading) /\ (sending ~> ~sending)

\* both flags are clear again after a submit that failed across a reset and
\* a dispatch that failed
C9_Witness ==
    /\ ~isLoading
    /\ error = FetchErrorText
    /\ messages = <<>>
    /\ currentChat # Null
    /\ ~sending
    /\ lastAlert = AlertFailure

\* C10: at most one /ask_bot request is in flight, isLoading is true exactly
\* when one is, and a reset changes neither isLoading nor error.
C10_SingleRequestInFlight ==
    /\ [](Len(askInflight) <= 1 /\ (isLoading <=> askInflight # <<>>))
    /\ [][ResetStep => (isLoading' = isLoading /\ error' = error)]_vars

\* a request is still in flight after the session it came from was reset
C10_Witness ==
    /\ isLoading
    /\ Len(askInflight) = 1
    /\ messages = <<>>
    /\ currentChat # Null

=============================================================================
